---- MODULE Spec2Model ----
(***************************************************************************)
(* Vehicle telemetry simulator: the Simulator thread (src/main.py), the    *)
(* two queues it shares with the Tk application, and the VehicleModel it   *)
(* advances.                                                               *)
(*                                                                         *)
(* Floats are modelled in fixed point.  Units:                             *)
(*   time            jiffies, 1 jiffy = 1/60 s (the step of a 60 Hz loop)  *)
(*   throttle, brake thousandths                                           *)
(*   speed_kph       thousandths of a km/h;  v_ms in mm/s                  *)
(*   rpm             rev/min                                               *)
(*   coolant_temp_c  thousandths of a degree                               *)
(*   fuel_level_pct  1e-7 percent                                          *)
(*   battery_v       microvolts                                            *)
(* Divisions round to nearest where the float code is (nearly) exact, so   *)
(* that kph -> m/s -> kph is the identity on values the code produces.     *)
(***************************************************************************)
EXTENDS Integers, Sequences, FiniteSets, TLC

VARIABLES
    objs,        \* the heap of VehicleState objects, by object identity
    model_state, \* VehicleModel.state: the identity of the live object
    running,     \* Simulator._running (threading.Event)
    pc,          \* position of the Simulator thread in run()
    accum,       \* run()'s accum, in time quanta
    cmd_q,       \* App.cmd_q / Simulator.cmd_in (unbounded queue.Queue)
    state_q,     \* App.state_q / Simulator.state_out (queue.Queue(maxsize=5))
    engine_btn,  \* the "Engine ON" checkbutton's selected flag
    gear_var,    \* App.gear_var (tk.IntVar behind the spinbox)
    rpc,         \* position of the Tk thread in _on_timer
    latest,      \* _on_timer's local `latest`
    nsteps,      \* history: number of update() calls begun
    nput,        \* history: number of successful put_nowait on state_out
    submitted,   \* history: every command put on cmd_q, in order
    applied,     \* history: every command _drain_commands applied, in order
    drainMark,   \* history: Len(submitted) when the last drain saw Empty
    gotSeq,      \* history: step number of the state the reader got last
    pre,         \* history: the live state as the last update()/command found it
    lastOp,      \* history: the last operation on the model
    nstop,       \* history: number of calls of Simulator.stop()
    gui_read,    \* history: a Tk handler has read a field of self.model.state
    due,         \* history: nsteps at the iteration's clock reading, plus
                 \*          floor(accum / dt) for the accum computed there
    resetMark,   \* history: nsteps when the state object was last replaced
    sensed,      \* history: how the last update() got its sensor values
    vsim,        \* the VehicleSimulator object of src/telemetry/simulator.py
    nvs,         \* history: number of calls made on the VehicleSimulator
    lastPut      \* history: step number of the newest state put on state_out

vars == <<objs, model_state, running, pc, accum, cmd_q, state_q, engine_btn,
          gear_var, rpc, latest, nsteps, nput, submitted, applied, drainMark,
          gotSeq, pre, lastOp, nstop, gui_read, due, resetMark, sensed, vsim,
          nvs, lastPut>>

-----------------------------------------------------------------------------
(* Bounds of the model *)

MaxCmds == 2        \* commands submitted in a run
MaxSteps == 2       \* update() calls in a run
TicksPerDt == 2     \* time quanta per fixed step dt
MaxElapsed == 4     \* quanta that can pass between two clock readings
MaxPublish == 6     \* update() calls in a run of the state path
MaxResets == 1      \* Reset commands in a run of the state path
MaxOps == 2         \* operations on the model in a run of the model alone
MaxStops == 2       \* calls of Simulator.stop() in a run of the lifecycle
MaxApiSteps == 3    \* update() calls on the VehicleSimulator

(* Program constants *)

StateQMax == 5          \* queue.Queue(maxsize=5)
MaxGear == 6            \* max(self.gear_ratios); the 6 of min(6, int(payload))
Hz == 60                \* Simulator(hz=60)
IdleRpm == 800
RedlineRpm == 6500
ShiftUpRpm == 3000
ShiftDownRpm == 1100
MaxAccel == 3500        \* mm/s^2 at full throttle
MaxBrake == 7000        \* mm/s^2
DragMilli == 15         \* drag_coeff, thousandths
WheelCircMm == 1948     \* 2 * pi * wheel_radius_m, in mm
FinalDriveX100 == 342
NearStopMm == 100       \* v_ms < 0.1

GearRatioX100(g) ==
    CASE g = 1 -> 380 [] g = 2 -> 220 [] g = 3 -> 150
      [] g = 4 -> 100 [] g = 5 -> 80 [] g = 6 -> 68
      [] OTHER -> 100   \* gear_ratios.get(s.gear, 1.0)

Dt == 60 \div Hz   \* self.dt = 1.0 / hz, in jiffies

-----------------------------------------------------------------------------
(* Arithmetic helpers *)

Max(a, b) == IF a >= b THEN a ELSE b
Min(a, b) == IF a <= b THEN a ELSE b

\* a / b rounded to nearest, for a >= 0 and b > 0
RoundDiv(a, b) == (2 * a + b) \div (2 * b)

Last(q) == q[Len(q)]

\* v_ms = speed_kph / 3.6 and speed_kph = v_ms * 3.6
MsOfKph(k) == RoundDiv(k * 10, 36)
KphOfMs(v) == RoundDiv(v * 36, 10)

-----------------------------------------------------------------------------
(* VehicleState and VehicleModel *)

VehicleState ==
    [t |-> 0, speed_kph |-> 0, rpm |-> 800, throttle |-> 0, brake |-> 0,
     gear |-> 1, engine_on |-> TRUE, coolant_temp_c |-> 70000,
     fuel_level_pct |-> 800000000, battery_v |-> 12500000]

\* lines 80-81: engine off forces the throttle to zero
KeepThrottle(s) == s
ForceThrottle(s) == IF ~s.engine_on THEN [s EXCEPT !.throttle = 0] ELSE s

\* lines 84-93: the integrated speed in mm/s
IntegrateSpeed(s, dt) ==
    LET v_ms       == MsOfKph(s.speed_kph)
        a_throttle == (s.throttle * MaxAccel) \div 1000
        a_brake    == (s.brake * MaxBrake) \div 1000
        a_drag     == (DragMilli * v_ms) \div 1000
        a_net      == a_throttle - a_brake - a_drag
    IN  Max(0, v_ms + (a_net * dt) \div 60)

\* lines 97-103: engine rpm from wheel speed and gearing
RpmOfUnclamped(v_ms, gear, engine_on) ==
    LET floor_rpm == IF engine_on THEN IdleRpm ELSE 0
        wheel_x10 == (v_ms * 600) \div WheelCircMm
        engine_rpm == (((wheel_x10 * FinalDriveX100) \div 100)
                          * GearRatioX100(gear)) \div 1000
    IN  IF v_ms < NearStopMm THEN floor_rpm
        ELSE Max(floor_rpm, engine_rpm)

RpmOf(v_ms, gear, engine_on) ==
    LET floor_rpm == IF engine_on THEN IdleRpm ELSE 0
        wheel_x10 == (v_ms * 600) \div WheelCircMm
        engine_rpm == (((wheel_x10 * FinalDriveX100) \div 100)
                          * GearRatioX100(gear)) \div 1000
    IN  IF v_ms < NearStopMm THEN floor_rpm
        ELSE Max(floor_rpm, Min(engine_rpm, RedlineRpm))

\* lines 105-109: the toy auto shift
AutoShiftNoTop(s) ==
    IF s.engine_on /\ s.rpm > ShiftUpRpm
    THEN [s EXCEPT !.gear = s.gear + 1]
    ELSE IF s.engine_on /\ s.rpm < ShiftDownRpm /\ s.gear > 1
         THEN [s EXCEPT !.gear = s.gear - 1]
         ELSE s

AutoShift(s) ==
    IF s.engine_on /\ s.rpm > ShiftUpRpm /\ s.gear < MaxGear
    THEN [s EXCEPT !.gear = s.gear + 1]
    ELSE IF s.engine_on /\ s.rpm < ShiftDownRpm /\ s.gear > 1
         THEN [s EXCEPT !.gear = s.gear - 1]
         ELSE s

\* lines 79-109 of update: throttle override, speed, rpm, shift
update_drive_cascade(s, dt) ==
    LET s1 == ForceThrottle(s)
        v  == IntegrateSpeed(s1, dt)
        s2 == [s1 EXCEPT !.speed_kph = KphOfMs(v),
                         !.rpm = RpmOf(v, s1.gear, s1.engine_on)]
    IN  AutoShift(AutoShift(s2))

update_drive(s, dt) ==
    LET s1 == ForceThrottle(s)
        v  == IntegrateSpeed(s1, dt)
        s2 == [s1 EXCEPT !.speed_kph = KphOfMs(v),
                         !.rpm = RpmOf(v, s1.gear, s1.engine_on)]
    IN  AutoShift(s2)

\* _fallback_sensors
fallback_sensors(s, dt) ==
    LET target == IF s.engine_on THEN 92000 ELSE 20000
        rate   == Min(3000, dt)      \* min(1.0, dt * 0.02), in 1/3000
        drift  == ((IF s.engine_on THEN 50000 ELSE -20000) * dt) \div 60
        burn   == ((200 + 4 * s.throttle) * dt) \div 60
    IN  [s EXCEPT
           !.coolant_temp_c = s.coolant_temp_c
                                + ((target - s.coolant_temp_c) * rate) \div 3000,
           !.fuel_level_pct = Max(0, s.fuel_level_pct - burn),
           !.battery_v = Max(11500000, Min(14200000, s.battery_v + drift))]

\* lines 111-122 of update: the sensors (self.sensors is None: the import of
\* telemetry.sensors fails in this repository) and the clock
update_sensors_back(s, dt) ==
    LET s1 == fallback_sensors(s, dt)
    IN  [s1 EXCEPT !.t = s1.t - dt]

update_sensors(s, dt) ==
    LET s1 == fallback_sensors(s, dt)
    IN  [s1 EXCEPT !.t = s1.t + dt]

update(s, dt) == update_sensors(update_drive(s, dt), dt)

\* self.sensors as a VehicleModel can hold it: None, or a strategy object.
\* Of a strategy the model keeps which of its three calls raises (fail_at,
\* 0 when none does) and by how much a call that returns moves the value.
NoSensors == [present |-> FALSE, fail_at |-> 0, d |-> 0]
SensorsInputs ==
    {NoSensors} \cup {[present |-> TRUE, fail_at |-> k, d |-> 1000] : k \in 0..3}

\* lines 112-120: the three assignments in the try block, each made before
\* the next call is attempted; the except branch and the else branch both
\* call _fallback_sensors on the state as it is then
sensor_updates(s, dt, sn) ==
    LET raised(k) == sn.fail_at # 0 /\ sn.fail_at <= k
        s1 == IF raised(1) THEN s
              ELSE [s EXCEPT !.coolant_temp_c = @ + sn.d]
        s2 == IF raised(2) THEN s1
              ELSE [s1 EXCEPT !.fuel_level_pct = Max(0, @ - sn.d)]
        s3 == IF raised(3) THEN s2
              ELSE [s2 EXCEPT !.battery_v = @ + sn.d]
    IN  IF ~sn.present THEN fallback_sensors(s, dt)
        ELSE IF raised(3) THEN fallback_sensors(s3, dt)
        ELSE s3

\* update() of a VehicleModel whose self.sensors is sn
update_with(s, dt, sn) ==
    LET s1 == sensor_updates(update_drive(s, dt), dt, sn)
    IN  [s1 EXCEPT !.t = s1.t + dt]

\* which branch of lines 112-120 the update took
SensedBy(sn) ==
    IF ~sn.present THEN "fallback"
    ELSE IF sn.fail_at # 0 THEN "failed" ELSE "strategy"

-----------------------------------------------------------------------------
(* VehicleSimulator (src/telemetry/simulator.py), the simulator behind the *)
(* API.  Units: dt in tenths of a second; rpm in rev/min; speed in         *)
(* hundredths of a km/h; temp in 1/16000 degree; fuel in 1/1600000         *)
(* percent; voltage in millivolts.  With these every product of update()   *)
(* is an exact integer.                                                    *)

\* __init__
VehicleSimulator ==
    [rpm |-> 800, speed |-> 0, temp |-> 70 * 16000, fuel |-> 100 * 1600000,
     voltage |-> 13200, gas_pressed |-> FALSE, brake_pressed |-> FALSE]

\* update(dt), lines 33-48
VehicleSimulator_update_no_limit(v, dt) ==
    LET rpm   == IF v.gas_pressed THEN Min(v.rpm + 40 * dt, 6000)
                 ELSE IF v.brake_pressed THEN Max(v.rpm - 60 * dt, 700)
                 ELSE Max(v.rpm - 15 * dt, 700)
        speed == IF v.gas_pressed THEN v.speed + 30 * dt
                 ELSE IF v.brake_pressed THEN Max(v.speed - 60 * dt, 0)
                 ELSE Max(v.speed - 12 * dt, 0)
    IN  [v EXCEPT
           !.rpm = rpm,
           !.speed = speed,
           !.temp = Max(20 * 16000, Min(v.temp + (rpm - 800) * dt, 120 * 16000)),
           !.fuel = Max(0, v.fuel - rpm * dt),
           !.voltage = IF rpm < 1000 THEN 12500 ELSE 13800]

VehicleSimulator_update(v, dt) ==
    LET rpm   == IF v.gas_pressed THEN Min(v.rpm + 40 * dt, 6000)
                 ELSE IF v.brake_pressed THEN Max(v.rpm - 60 * dt, 700)
                 ELSE Max(v.rpm - 15 * dt, 700)
        speed == IF v.gas_pressed THEN Min(v.speed + 30 * dt, 22000)
                 ELSE IF v.brake_pressed THEN Max(v.speed - 60 * dt, 0)
                 ELSE Max(v.speed - 12 * dt, 0)
    IN  [v EXCEPT
           !.rpm = rpm,
           !.speed = speed,
           !.temp = Max(20 * 16000, Min(v.temp + (rpm - 800) * dt, 120 * 16000)),
           !.fuel = Max(0, v.fuel - rpm * dt),
           !.voltage = IF rpm < 1000 THEN 12500 ELSE 13800]

\* step sizes update() is called with, in tenths of a second: 0.1 s, the
\* default 1.0 s, and 3000 s (long enough to reach every limit in one call)
ApiDtInputs == {1, 10, 30000}

-----------------------------------------------------------------------------
(* Commands *)

Cmd(c, p) == [cmd |-> c, payload |-> p]

\* max(0.0, min(1.0, val)) in App._set_throttle / App._set_brake
Clamp01(val) == Max(0, Min(1000, val))

\* the branches of _drain_commands that assign a field of the live object
apply_cmd(s, c) ==
    CASE c.cmd = "throttle"  -> [s EXCEPT !.throttle = c.payload]
      [] c.cmd = "brake"     -> [s EXCEPT !.brake = c.payload]
      [] c.cmd = "engine_on" -> [s EXCEPT !.engine_on = (c.payload # 0)]
      [] c.cmd = "gear"      -> [s EXCEPT !.gear = Max(1, Min(6, c.payload))]
      [] OTHER               -> s

\* values the pedal handlers are called with (1.0 on press, 0.0 on release)
PedalInputs == {0, 1000}

\* tuples a producer can put on cmd_in without going through the handlers
RawCmds == {Cmd("throttle", 1500), Cmd("brake", -500), Cmd("gear", 9)}

None == [obj |-> 0, seq |-> 0, t |-> 0]

\* queue.Queue is FIFO: get_nowait returns the oldest item and removes it
get_lifo(q) == [item |-> Last(q), rest |-> SubSeq(q, 1, Len(q) - 1)]
get_nowait(q) == [item |-> Head(q), rest |-> Tail(q)]

\* get_nowait raises queue.Empty exactly when the queue holds nothing
empty_anytime(q) == TRUE
empty(q) == Len(q) = 0

Live == objs[model_state]

-----------------------------------------------------------------------------
(* The Simulator thread: run(), one action per atomic step *)

\* while self._running.is_set()
LoopForever ==
    /\ pc = "loop"
    /\ pc' = "drain"
    /\ UNCHANGED <<objs, model_state, running, accum, cmd_q, state_q, engine_btn,
                   gear_var, rpc, latest, nsteps, nput, submitted, applied,
                   drainMark, gotSeq, pre, lastOp,
                   nstop, gui_read, due, resetMark, sensed, vsim, nvs, lastPut>>

LoopCheck ==
    /\ pc = "loop"
    /\ pc' = IF running THEN "drain" ELSE "done"
    /\ UNCHANGED <<objs, model_state, running, accum, cmd_q, state_q, engine_btn,
                   gear_var, rpc, latest, nsteps, nput, submitted, applied,
                   drainMark, gotSeq, pre, lastOp,
                   nstop, gui_read, due, resetMark, sensed, vsim, nvs, lastPut>>

\* lines 172-182: the branch of _drain_commands taken for command c; a reset
\* binds self.model.state to a new object and leaves the old one as it was
drain_apply_keep_clock(c) ==
    /\ applied' = Append(applied, c)
    /\ pre' = Live
    /\ lastOp' = c.cmd
    /\ resetMark' = IF c.cmd = "reset" THEN nsteps ELSE resetMark
    /\ IF c.cmd = "reset"
       THEN /\ objs' = Append(objs, [VehicleState EXCEPT !.t = Live.t])
            /\ model_state' = Len(objs) + 1
       ELSE /\ objs' = [objs EXCEPT ![model_state] = apply_cmd(@, c)]
            /\ model_state' = model_state

drain_apply(c) ==
    /\ applied' = Append(applied, c)
    /\ pre' = Live
    /\ lastOp' = c.cmd
    /\ resetMark' = IF c.cmd = "reset" THEN nsteps ELSE resetMark
    /\ IF c.cmd = "reset"
       THEN /\ objs' = Append(objs, VehicleState)
            /\ model_state' = Len(objs) + 1
       ELSE /\ objs' = [objs EXCEPT ![model_state] = apply_cmd(@, c)]
            /\ model_state' = model_state

\* _drain_commands: one get_nowait that returns a command, and its branch
DrainGet ==
    /\ pc = "drain"
    /\ cmd_q # <<>>
    /\ cmd_q' = get_nowait(cmd_q).rest
    /\ drain_apply(get_nowait(cmd_q).item)
    /\ UNCHANGED <<running, pc, accum, state_q, engine_btn, gear_var, rpc,
                   latest, nsteps, nput, submitted, drainMark, gotSeq,
                   nstop, gui_read, due, sensed, vsim, nvs, lastPut>>

\* while accum >= self.dt: the next position of the thread; when the test
\* fails the thread sleeps 1 ms and is back at the top of the loop
InnerCheckStrict(a) == IF a > TicksPerDt THEN "update" ELSE "loop"
InnerCheck(a) == IF a >= TicksPerDt THEN "update" ELSE "loop"

\* _drain_commands: get_nowait raises queue.Empty; then, on locals only,
\* now = perf_counter(); accum += now - last; last = now; and the first
\* test of accum >= self.dt
DrainEmpty(maxSteps) ==
    /\ pc = "drain"
    /\ empty(cmd_q)
    /\ drainMark' = Len(submitted)
    /\ \E e \in 0..MaxElapsed :
          /\ nsteps + (accum + e) \div TicksPerDt <= maxSteps
          /\ accum' = accum + e
          /\ due' = nsteps + (accum + e) \div TicksPerDt
          /\ pc' = InnerCheck(accum + e)
    /\ UNCHANGED <<objs, model_state, running, cmd_q, state_q, engine_btn,
                   gear_var, rpc, latest, nsteps, nput, submitted, applied,
                   gotSeq, pre, lastOp,
                   nstop, gui_read, resetMark, sensed, vsim, nvs, lastPut>>

\* self.model.update(self.dt), lines 79-109
UpdateDrive ==
    /\ pc = "update"
    /\ pre' = Live
    /\ lastOp' = "update"
    /\ objs' = [objs EXCEPT ![model_state] = update_drive(@, Dt)]
    /\ nsteps' = nsteps + 1
    /\ pc' = "sensors"
    /\ UNCHANGED <<model_state, running, accum, cmd_q, state_q, engine_btn,
                   gear_var, rpc, latest, nput, submitted, applied, drainMark,
                   gotSeq,
                   nstop, gui_read, due, resetMark, sensed, vsim, nvs, lastPut>>

\* self.model.update(self.dt), lines 111-122; accum -= self.dt
UpdateSensors ==
    /\ pc = "sensors"
    /\ objs' = [objs EXCEPT ![model_state] = update_sensors(@, Dt)]
    /\ accum' = accum - TicksPerDt
    /\ sensed' = "fallback"
    /\ pc' = "put"
    /\ UNCHANGED <<model_state, running, cmd_q, state_q, engine_btn, gear_var,
                   rpc, latest, nsteps, nput, submitted, applied, drainMark,
                   gotSeq, pre, lastOp,
                   nstop, gui_read, due, resetMark, vsim, nvs, lastPut>>

\* what put_nowait(self.model.state) appends: the live object itself
Published == [obj |-> model_state, seq |-> nsteps, t |-> Live.t]

\* lines 158-165: put_nowait; on queue.Full, get_nowait and put_nowait again;
\* on queue.Empty, pass.  Each queue call is one atomic step; the test of
\* accum >= self.dt that follows is on a local.
Publish ==
    /\ pc \in {"put", "evict", "reput"}
    /\ CASE pc = "put" /\ Len(state_q) < StateQMax ->
              /\ state_q' = Append(state_q, Published)
              /\ nput' = nput + 1
              /\ lastPut' = nsteps
              /\ pc' = InnerCheck(accum)
         [] pc = "put" /\ Len(state_q) >= StateQMax ->      \* queue.Full
              /\ pc' = "evict"
              /\ UNCHANGED <<state_q, nput, lastPut>>
         [] pc = "evict" /\ state_q # <<>> ->
              /\ state_q' = get_nowait(state_q).rest
              /\ pc' = "reput"
              /\ UNCHANGED <<nput, lastPut>>
         [] pc = "evict" /\ state_q = <<>> ->               \* queue.Empty: pass
              /\ pc' = InnerCheck(accum)
              /\ UNCHANGED <<state_q, nput, lastPut>>
         [] pc = "reput" ->
              /\ Len(state_q) < StateQMax
              /\ state_q' = Append(state_q, Published)
              /\ nput' = nput + 1
              /\ lastPut' = nsteps
              /\ pc' = InnerCheck(accum)
    /\ UNCHANGED <<objs, model_state, running, accum, cmd_q, engine_btn,
                   gear_var, rpc, latest, nsteps, submitted, applied, drainMark,
                   gotSeq, pre, lastOp,
                   nstop, gui_read, due, resetMark, sensed, vsim, nvs>>

-----------------------------------------------------------------------------
(* The Tk thread: the App's handlers.  Each runs to completion on the one  *)
(* Tk thread, so none starts while _on_timer is in progress.               *)

\* _send_cmd: self.cmd_q.put_nowait((cmd, payload)); cmd_q is unbounded
send_cmd_front(c) ==
    /\ cmd_q' = <<c>> \o cmd_q
    /\ submitted' = Append(submitted, c)

send_cmd(c) ==
    /\ cmd_q' = Append(cmd_q, c)
    /\ submitted' = Append(submitted, c)

\* _set_throttle(val)
set_throttle(maxCmds) ==
    /\ rpc = "idle"
    /\ Len(submitted) < maxCmds
    /\ \E val \in PedalInputs : send_cmd(Cmd("throttle", Clamp01(val)))
    /\ UNCHANGED <<objs, model_state, running, pc, accum, state_q, engine_btn,
                   gear_var, rpc, latest, nsteps, nput, applied, drainMark,
                   gotSeq, pre, lastOp,
                   nstop, gui_read, due, resetMark, sensed, vsim, nvs, lastPut>>

\* _set_brake(val)
set_brake(maxCmds) ==
    /\ rpc = "idle"
    /\ Len(submitted) < maxCmds
    /\ \E val \in PedalInputs : send_cmd(Cmd("brake", Clamp01(val)))
    /\ UNCHANGED <<objs, model_state, running, pc, accum, state_q, engine_btn,
                   gear_var, rpc, latest, nsteps, nput, applied, drainMark,
                   gotSeq, pre, lastOp,
                   nstop, gui_read, due, resetMark, sensed, vsim, nvs, lastPut>>

\* _toggle_engine(from_key): the key reads the live state, the click the button
toggle_engine(maxCmds) ==
    /\ rpc = "idle"
    /\ Len(submitted) < maxCmds
    /\ \E from_key \in BOOLEAN :
          LET on == IF from_key THEN ~Live.engine_on ELSE ~engine_btn IN
          /\ engine_btn' = on
          /\ gui_read' = (gui_read \/ from_key)
          /\ send_cmd(Cmd("engine_on", IF on THEN 1 ELSE 0))
    /\ UNCHANGED <<objs, model_state, running, pc, accum, state_q, gear_var,
                   rpc, latest, nsteps, nput, applied, drainMark, gotSeq, pre,
                   lastOp,
                   nstop, due, resetMark, sensed, vsim, nvs, lastPut>>

\* _set_gear, the spinbox's command: an arrow moved gear_var within from_..to
set_gear(maxCmds) ==
    /\ rpc = "idle"
    /\ Len(submitted) < maxCmds
    /\ \E d \in {-1, 1} :
          /\ gear_var + d \in 1..MaxGear
          /\ gear_var' = gear_var + d
          /\ send_cmd(Cmd("gear", gear_var + d))
    /\ UNCHANGED <<objs, model_state, running, pc, accum, state_q, engine_btn,
                   rpc, latest, nsteps, nput, applied, drainMark, gotSeq, pre,
                   lastOp,
                   nstop, gui_read, due, resetMark, sensed, vsim, nvs, lastPut>>

\* _reset
reset(maxCmds) ==
    /\ rpc = "idle"
    /\ Len(submitted) < maxCmds
    /\ send_cmd(Cmd("reset", 1))
    /\ UNCHANGED <<objs, model_state, running, pc, accum, state_q, engine_btn,
                   gear_var, rpc, latest, nsteps, nput, applied, drainMark,
                   gotSeq, pre, lastOp,
                   nstop, gui_read, due, resetMark, sensed, vsim, nvs, lastPut>>

\* a put on cmd_in by a producer other than the handlers above
cmd_in_put(maxCmds) ==
    /\ rpc # "closed"
    /\ Len(submitted) < maxCmds
    /\ \E c \in RawCmds : send_cmd(c)
    /\ UNCHANGED <<objs, model_state, running, pc, accum, state_q, engine_btn,
                   gear_var, rpc, latest, nsteps, nput, applied, drainMark,
                   gotSeq, pre, lastOp,
                   nstop, gui_read, due, resetMark, sensed, vsim, nvs, lastPut>>

\* _on_timer: latest = None
on_timer ==
    /\ rpc = "idle"
    /\ latest' = None
    /\ rpc' = "drain"
    /\ UNCHANGED <<objs, model_state, running, pc, accum, cmd_q, state_q,
                   engine_btn, gear_var, nsteps, nput, submitted, applied,
                   drainMark, gotSeq, pre, lastOp,
                   nstop, gui_read, due, resetMark, sensed, vsim, nvs, lastPut>>

\* _on_timer: latest = self.state_q.get_nowait()
on_timer_get ==
    /\ rpc = "drain"
    /\ state_q # <<>>
    /\ latest' = get_nowait(state_q).item
    /\ gotSeq' = get_nowait(state_q).item.seq
    /\ state_q' = get_nowait(state_q).rest
    /\ UNCHANGED <<objs, model_state, running, pc, accum, cmd_q, engine_btn,
                   gear_var, rpc, nsteps, nput, submitted, applied, drainMark,
                   pre, lastOp,
                   nstop, gui_read, due, resetMark, sensed, vsim, nvs, lastPut>>

\* _on_timer: get_nowait raises queue.Empty; `if latest:` decides what follows
on_timer_empty ==
    /\ rpc = "drain"
    /\ state_q = <<>>
    /\ rpc' = IF latest # None THEN "show" ELSE "idle"
    /\ UNCHANGED <<objs, model_state, running, pc, accum, cmd_q, state_q,
                   engine_btn, gear_var, latest, nsteps, nput, submitted,
                   applied, drainMark, gotSeq, pre, lastOp,
                   nstop, gui_read, due, resetMark, sensed, vsim, nvs, lastPut>>

\* _on_timer: labels, buffers and log read from `latest`; the local is dropped
on_timer_show ==
    /\ rpc = "show"
    /\ latest' = None
    /\ rpc' = "idle"
    /\ UNCHANGED <<objs, model_state, running, pc, accum, cmd_q, state_q,
                   engine_btn, gear_var, nsteps, nput, submitted, applied,
                   drainMark, gotSeq, pre, lastOp,
                   nstop, gui_read, due, resetMark, sensed, vsim, nvs, lastPut>>

\* _on_close: self.sim.stop(), then the window is destroyed
on_close ==
    /\ rpc = "idle"
    /\ running' = FALSE
    /\ nstop' = nstop + 1
    /\ rpc' = "closed"
    /\ UNCHANGED <<objs, model_state, pc, accum, cmd_q, state_q, engine_btn,
                   gear_var, latest, nsteps, nput, submitted, applied,
                   drainMark, gotSeq, pre, lastOp,
                   gui_read, due, resetMark, sensed, vsim, nvs, lastPut>>

\* Simulator.stop(): self._running.clear(), from any thread, any number of
\* times
stop_set ==
    /\ nstop < MaxStops
    /\ running' = TRUE
    /\ nstop' = nstop + 1
    /\ UNCHANGED <<objs, model_state, pc, accum, cmd_q, state_q, engine_btn,
                   gear_var, rpc, latest, nsteps, nput, submitted, applied,
                   drainMark, gotSeq, pre, lastOp, gui_read, due, resetMark,
                   sensed, vsim, nvs, lastPut>>

stop ==
    /\ nstop < MaxStops
    /\ running' = FALSE
    /\ nstop' = nstop + 1
    /\ UNCHANGED <<objs, model_state, pc, accum, cmd_q, state_q, engine_btn,
                   gear_var, rpc, latest, nsteps, nput, submitted, applied,
                   drainMark, gotSeq, pre, lastOp, gui_read, due, resetMark,
                   sensed, vsim, nvs, lastPut>>

-----------------------------------------------------------------------------
(* The system: App.__init__ builds the queues and the model and starts the *)
(* Simulator thread.                                                       *)

Init ==
    /\ objs = <<VehicleState>>
    /\ model_state = 1
    /\ running = TRUE
    /\ pc = "loop"
    /\ accum = 0
    /\ cmd_q = <<>>
    /\ state_q = <<>>
    /\ engine_btn = TRUE
    /\ gear_var = 1
    /\ rpc = "idle"
    /\ latest = None
    /\ nsteps = 0
    /\ nput = 0
    /\ submitted = <<>>
    /\ applied = <<>>
    /\ drainMark = 0
    /\ gotSeq = 0
    /\ pre = VehicleState
    /\ lastOp = "init"
    /\ nstop = 0
    /\ gui_read = FALSE
    /\ due = 0
    /\ resetMark = 0
    /\ sensed = "none"
    /\ vsim = VehicleSimulator
    /\ nvs = 0
    /\ lastPut = 0

SimNext(maxSteps) ==
    \/ LoopCheck
    \/ DrainGet
    \/ DrainEmpty(maxSteps)
    \/ UpdateDrive
    \/ UpdateSensors
    \/ Publish

HandlerNext(maxCmds) ==
    \/ set_throttle(maxCmds)
    \/ set_brake(maxCmds)
    \/ toggle_engine(maxCmds)
    \/ set_gear(maxCmds)
    \/ reset(maxCmds)
    \/ cmd_in_put(maxCmds)

TimerNext ==
    \/ on_timer
    \/ on_timer_get
    \/ on_timer_empty
    \/ on_timer_show

\* The whole system.
Next == SimNext(MaxSteps) \/ HandlerNext(MaxCmds) \/ TimerNext \/ on_close

Spec == Init /\ [][Next]_vars

\* The command path: the operator's handlers and the loop.  The timer only
\* takes from state_q, which the loop never reads and, within MaxSteps puts,
\* never finds full, so its steps are left out.
NextCommands == SimNext(MaxSteps) \/ HandlerNext(MaxCmds) \/ on_close

SpecCommands == Init /\ [][NextCommands]_vars

\* The state path: the loop publishing MaxPublish steps against the timer's
\* drain, with Reset as the one command (it changes which object is published).
NextChannel == SimNext(MaxPublish) \/ reset(MaxResets) \/ TimerNext \/ on_close

SpecChannel == Init /\ [][NextChannel]_vars

\* The state path under fair scheduling: the Simulator thread keeps running
\* while it has a step to take, and Tk keeps firing the timer it re-arms with
\* after() until the window is closed.
SpecChannelFair ==
    SpecChannel /\ WF_vars(SimNext(MaxPublish)) /\ WF_vars(TimerNext)

\* The lifecycle: the loop, stop() called at any moment and more than once,
\* and Reset commands for the drain to find.
NextLifecycle == SimNext(MaxSteps) \/ stop \/ reset(MaxResets)

SpecLifecycle == Init /\ [][NextLifecycle]_vars

\* The Simulator thread is a thread of its own: it keeps being scheduled
\* while it has a step to take.
SpecLifecycleFair == SpecLifecycle /\ WF_vars(SimNext(MaxSteps))

-----------------------------------------------------------------------------
(* The model alone: update() and the branches of _drain_commands applied   *)
(* one after another, as the Simulator thread does, from a state the car   *)
(* can have been driven to.                                                *)

\* speeds in mm/s: at rest, below and just above the near-stop threshold,
\* just past the up-shift threshold of first gear, and two cruising speeds
DriveSpeeds == {0, 50, 120, 7600, 30000, 60000}

\* fuel levels: the default, and nearly empty
DriveFuels == {800000000, 50}

\* step sizes update() is applied with: 1/60 s and 1 s
DtInputs == {Dt, 60}

\* commands the drain is given
DriveCmds ==
    {Cmd("throttle", 1000), Cmd("throttle", 1500), Cmd("throttle", -500),
     Cmd("brake", 1000), Cmd("brake", -500),
     Cmd("engine_on", 0), Cmd("engine_on", 1),
     Cmd("gear", 0), Cmd("gear", 3), Cmd("gear", 9),
     Cmd("reset", 1)}

\* the state after the car was driven to speed v and the drain then set the
\* gear, the engine flag and the throttle
Driven(v, g, on, th, f) ==
    [VehicleState EXCEPT !.t = 600, !.speed_kph = KphOfMs(v),
                         !.rpm = RpmOf(v, g, on), !.gear = g,
                         !.engine_on = on, !.throttle = th,
                         !.fuel_level_pct = f]

InitModel ==
    /\ \E v \in DriveSpeeds, g \in 1..MaxGear, on \in BOOLEAN,
          th \in {0, 1000}, f \in DriveFuels :
          /\ objs = <<Driven(v, g, on, th, f)>>
          /\ pre = Driven(v, g, on, th, f)
    /\ model_state = 1
    /\ running = TRUE
    /\ pc = "loop"
    /\ accum = 0
    /\ cmd_q = <<>>
    /\ state_q = <<>>
    /\ engine_btn = TRUE
    /\ gear_var = 1
    /\ rpc = "idle"
    /\ latest = None
    /\ nsteps = 0
    /\ nput = 0
    /\ submitted = <<>>
    /\ applied = <<>>
    /\ drainMark = 0
    /\ gotSeq = 0
    /\ lastOp = "init"
    /\ nstop = 0
    /\ gui_read = FALSE
    /\ due = 0
    /\ resetMark = 0
    /\ sensed = "none"
    /\ vsim = VehicleSimulator
    /\ nvs = 0
    /\ lastPut = 0

\* VehicleModel.update(dt)
model_update ==
    /\ nsteps + Len(applied) < MaxOps
    /\ \E dt \in DtInputs :
          objs' = [objs EXCEPT ![model_state] = update(@, dt)]
    /\ pre' = Live
    /\ lastOp' = "update"
    /\ sensed' = "fallback"
    /\ nsteps' = nsteps + 1
    /\ UNCHANGED <<model_state, running, pc, accum, cmd_q, state_q, engine_btn,
                   gear_var, rpc, latest, nput, submitted, applied, drainMark,
                   gotSeq,
                   nstop, gui_read, due, resetMark, vsim, nvs, lastPut>>

\* one command through _drain_commands
model_command ==
    /\ nsteps + Len(applied) < MaxOps
    /\ \E c \in DriveCmds : drain_apply(c)
    /\ UNCHANGED <<running, pc, accum, cmd_q, state_q, engine_btn, gear_var,
                   rpc, latest, nsteps, nput, submitted, drainMark, gotSeq,
                   nstop, gui_read, due, sensed, vsim, nvs, lastPut>>

NextModel == model_update \/ model_command

\* VehicleModel.update(dt) of a model built with or without a sensor strategy
model_update_sensors ==
    /\ nsteps + Len(applied) < MaxOps
    /\ \E dt \in DtInputs, sn \in SensorsInputs :
          /\ objs' = [objs EXCEPT ![model_state] = update_with(@, dt, sn)]
          /\ sensed' = SensedBy(sn)
    /\ pre' = Live
    /\ lastOp' = "update"
    /\ nsteps' = nsteps + 1
    /\ UNCHANGED <<model_state, running, pc, accum, cmd_q, state_q, engine_btn,
                   gear_var, rpc, latest, nput, submitted, applied, drainMark,
                   gotSeq, nstop, gui_read, due, resetMark, vsim, nvs, lastPut>>

\* The model with a pluggable sensor strategy.
NextSensors == model_update_sensors \/ model_command

SpecSensors == InitModel /\ [][NextSensors]_vars

SpecModel == InitModel /\ [][NextModel]_vars

-----------------------------------------------------------------------------
(* The VehicleSimulator alone: its four methods called in any order *)

NotVsim ==
    <<objs, model_state, running, pc, accum, cmd_q, state_q, engine_btn,
      gear_var, rpc, latest, nsteps, nput, submitted, applied, drainMark,
      gotSeq, pre, lastOp, nstop, gui_read, due, resetMark, sensed, lastPut>>

press_gas ==
    /\ vsim' = [vsim EXCEPT !.gas_pressed = TRUE, !.brake_pressed = FALSE]
    /\ UNCHANGED <<NotVsim, nvs>>

press_brake ==
    /\ vsim' = [vsim EXCEPT !.brake_pressed = TRUE, !.gas_pressed = FALSE]
    /\ UNCHANGED <<NotVsim, nvs>>

release_pedals ==
    /\ vsim' = [vsim EXCEPT !.gas_pressed = FALSE, !.brake_pressed = FALSE]
    /\ UNCHANGED <<NotVsim, nvs>>

\* update(dt)
api_update ==
    /\ nvs < MaxApiSteps
    /\ \E dt \in ApiDtInputs : vsim' = VehicleSimulator_update(vsim, dt)
    /\ nvs' = nvs + 1
    /\ UNCHANGED NotVsim

NextApi == press_gas \/ press_brake \/ release_pedals \/ api_update

SpecApi == Init /\ [][NextApi]_vars

-----------------------------------------------------------------------------
(* Properties *)

\* the objects a reader can reach: those in state_q and the one in `latest`
Readable ==
    {state_q[k].obj : k \in 1..Len(state_q)}
        \cup (IF latest # None THEN {latest.obj} ELSE {})

\* C1: a state that has been published to state_q, or read from it, is an
\* immutable snapshot: no step changes any field of it afterwards.
C1_SnapshotImmutable ==
    [][\A o \in Readable : objs'[o] = objs[o]]_vars

\* the positions of run() inside the catch-up loop's body, after update() returned
AfterUpdate == {"put", "evict", "reput"}

\* C2 as claimed: once stop() has cleared the flag, nothing more is put on
\* state_out.
C2_NoPutAfterStop ==
    [][~running => nput' = nput]_vars

\* C2 as amended: after stop() the loop leaves at its next check of the flag,
\* starting no further iteration, and an exited loop puts nothing.
C2_StopExitsAtNextCheck ==
    [][(~running /\ pc = "loop" => pc' \in {"loop", "done"})
         /\ (pc = "done" => pc' = "done" /\ nput' = nput)]_vars

\* stop() arrived while the catch-up loop had a state to publish and a further
\* step to run
C2_Witness ==
    ~running /\ pc = "put" /\ accum >= TicksPerDt

\* C3: commands are applied at most once and in submission order: what has
\* been applied, followed by what is pending, is what was submitted; and right
\* after a SetThrottle is applied the throttle is its payload.
C3_FifoAtMostOnce ==
    /\ applied \o cmd_q = submitted
    /\ lastOp = "throttle" => Live.throttle = Last(applied).payload

\* two different SetThrottle commands were drained with no update in between
C3_Witness ==
    /\ Len(applied) = 2
    /\ applied[1].cmd = "throttle" /\ applied[2].cmd = "throttle"
    /\ applied[1].payload # applied[2].payload
    /\ nsteps = 0
    /\ pc # "drain"
    /\ Live.throttle = applied[2].payload

\* C4 as claimed: update() is never called while a command is pending.
C4_NoPendingAtUpdate ==
    pc = "update" => cmd_q = <<>>

\* C4 as amended: every command submitted before the iteration's drain found
\* the queue empty has been applied before that iteration's update() calls;
\* only commands submitted after that are pending while update() runs.
C4_DrainedBeforeUpdate ==
    /\ Len(applied) >= drainMark
    /\ pc \in {"update", "sensors"} \cup AfterUpdate
          => Len(submitted) - Len(cmd_q) >= drainMark

\* one command was applied by the drain, another arrived before update()
C4_Witness ==
    pc = "update" /\ cmd_q # <<>> /\ drainMark >= 1 /\ Len(applied) = drainMark

\* C5: throttle and brake of the live state are in [0,1] in every state.
C5_PedalsInRange ==
    /\ Live.throttle \in 0..1000
    /\ Live.brake \in 0..1000

\* C6: when the publish code after an update() completes, the state of that
\* step is the newest element of state_q, which holds at most its capacity.
C6_EveryStepPublished ==
    [][(pc \in AfterUpdate /\ pc' \notin AfterUpdate)
         => (Len(state_q') \in 1..StateQMax /\ Last(state_q').seq = nsteps)]_vars

\* C7: the timer's read never blocks and ends with nothing, or with the newest
\* state it took and the channel empty; what the reader obtains only gets
\* newer (state_q is ordered by publication and holds nothing older than what
\* the reader already obtained); and every state put in the channel (step
\* number at most lastPut) is eventually obtained, or a newer one is, unless
\* the window is closed first.
C7_FreshnessOnRead ==
    /\ [](/\ \A i, j \in 1..Len(state_q) :
                i < j => state_q[i].seq < state_q[j].seq
          /\ \A i \in 1..Len(state_q) : state_q[i].seq > gotSeq
          /\ latest # None => latest.seq = gotSeq
          /\ rpc = "drain" => ENABLED TimerNext)
    /\ [][(gotSeq' >= gotSeq)
           /\ ((rpc = "drain" /\ rpc' # "drain")
                  => (state_q = <<>> /\ (rpc' = "show" <=> latest # None)))]_vars
    /\ \A k \in 1..MaxPublish :
          <>[](k <= lastPut => (gotSeq >= k \/ rpc = "closed"))

\* the channel overflowed, and a read ended with the newest state published
C7_Witness ==
    /\ rpc = "show"
    /\ latest.seq = nsteps
    /\ nsteps > StateQMax

\* C8 as claimed: the t of the live state never decreases.
C8_ClockNeverDecreases ==
    [][objs'[model_state'].t >= Live.t]_vars

\* C8 as amended: t changes only in update(), which adds dt, and when a Reset
\* is applied, which installs a fresh state with t = 0; states published from
\* one object carry non-decreasing t.
C8_ClockMonotoneBetweenResets ==
    /\ [][IF model_state' = model_state
           THEN objs'[model_state'].t =
                  IF pc = "sensors" /\ pc' = "put" THEN Live.t + Dt ELSE Live.t
           ELSE lastOp' = "reset" /\ objs'[model_state'].t = 0]_vars
    /\ [](\A i, j \in 1..Len(state_q) :
             i < j /\ state_q[i].obj = state_q[j].obj
                => state_q[i].t <= state_q[j].t)

\* the clock ran, a Reset put it back to 0, and it ran again
C8_Witness ==
    /\ model_state = 2
    /\ objs[1].t >= 1
    /\ Live.t >= 1

\* C9: the gear of the live state is within 1..max_gear in every state.
C9_GearInRange ==
    Live.gear \in 1..MaxGear

\* update() shifted up into top gear
C9_Witness ==
    lastOp = "update" /\ pre.gear = MaxGear - 1 /\ Live.gear = MaxGear

\* C10 as claimed: throttle is 0 whenever engine_on is false.
C10_EngineOffThrottleZero ==
    ~Live.engine_on => Live.throttle = 0

\* C10 as amended: when update() has run with the engine off, and until its
\* state is published, the throttle is 0 and the speed is the one integrated
\* with throttle 0 (no higher than before unless the brake is negative).
C10_EngineOffAfterUpdate ==
    pc \in AfterUpdate /\ ~Live.engine_on
       => /\ Live.throttle = 0
          /\ Live.speed_kph
                = KphOfMs(IntegrateSpeed([pre EXCEPT !.throttle = 0], Dt))
          /\ pre.brake >= 0 => Live.speed_kph <= pre.speed_kph

\* update() found the engine off and a throttle set, and zeroed it
C10_Witness ==
    pc = "put" /\ ~Live.engine_on /\ pre.throttle > 0 /\ Live.throttle = 0

\* everything but the count of stop() calls
ButStops ==
    <<objs, model_state, running, pc, accum, cmd_q, state_q, engine_btn,
      gear_var, rpc, latest, nsteps, nput, submitted, applied, drainMark,
      gotSeq, pre, lastOp, gui_read, due, resetMark, sensed, vsim, nvs, lastPut>>

\* C11: stopping is cooperative, terminal and idempotent.  Once stop() has
\* been called the loop eventually exits (the loop thread being scheduled
\* fairly), without starting another iteration; the flag, once cleared, stays
\* cleared and an exited loop stays exited; a stop() on a stopped Simulator
\* changes nothing; and the loop exits only at its test of the flag, with the
\* flag cleared by a stop().
C11_StopCooperativeTerminal ==
    /\ (nstop > 0) ~> (pc = "done")
    /\ [](running <=> nstop = 0)
    /\ [](pc = "done" => nstop > 0)
    /\ [][(~running => ~running')
           /\ (pc = "done" => pc' = "done")
           /\ ((~running /\ pc = "loop") => pc' \in {"loop", "done"})
           /\ ((pc # "done" /\ pc' = "done") => (~running /\ pc = "loop"))
           /\ ((nstop' # nstop /\ ~running) => UNCHANGED ButStops)]_vars

\* stop() was called twice while the catch-up loop was at work on a state
\* that a Reset had installed, and the loop published and then exited
C11_Witness ==
    /\ nstop = 2
    /\ pc = "done"
    /\ nput >= 1
    /\ applied # <<>>

\* C12: the live state is accessed only by the simulation loop.  No step of
\* a GUI handler reads a field of self.model.state, and a step that submits a
\* command, takes from state_q or closes the window leaves the heap and the
\* binding of self.model.state as they were (every write is the loop's).
C12_LiveStateOnlyByLoop ==
    [][(gui_read' = gui_read)
         /\ ((submitted' # submitted \/ rpc' # rpc \/ latest' # latest)
                => (objs' = objs /\ model_state' = model_state))]_vars

\* C13: Reset is total and idempotent.  Right after a Reset is applied, from
\* whatever state, the live state is a new object holding exactly the
\* defaults (so a second Reset in a row leaves the same values) and the object
\* it replaced is as it was; a command applied right after a Reset, with no
\* update in between, acts on the defaults.
C13_ResetIdempotentTotal ==
    /\ lastOp = "reset"
          => /\ Live = VehicleState
             /\ Live = [t |-> 0, speed_kph |-> 0, rpm |-> 800, throttle |-> 0,
                        brake |-> 0, gear |-> 1, engine_on |-> TRUE,
                        coolant_temp_c |-> 70000, fuel_level_pct |-> 800000000,
                        battery_v |-> 12500000]
             /\ model_state = Len(objs)
             /\ objs[model_state - 1] = pre
    /\ (/\ Len(applied) >= 2
        /\ applied[Len(applied) - 1].cmd = "reset"
        /\ resetMark = nsteps
        /\ lastOp = Last(applied).cmd)
          => Live = apply_cmd(VehicleState, Last(applied))

\* a Reset was applied to a driven car, and a second Reset right after it
C13_Witness ==
    /\ Len(applied) = 2
    /\ applied[1].cmd = "reset" /\ applied[2].cmd = "reset"
    /\ lastOp = "reset"
    /\ objs[1] # VehicleState
    /\ objs[2] = VehicleState
    /\ Live = VehicleState

\* C14: the fixed-step accumulator.  An iteration runs floor(accum / dt)
\* updates for the accum it computed at its clock reading (none when
\* accum < dt), and ends with 0 <= accum < dt; every update is entered with
\* accum >= dt and advances t by dt, so t is dt times the number of updates
\* since start or the last Reset; and each update is followed by one publish
\* attempt, which no other path enters.
C14_FixedStepAccumulator ==
    /\ [](/\ pc \in {"loop", "drain", "done"} => accum \in 0..(TicksPerDt - 1)
          /\ pc = "update" => accum >= TicksPerDt
          /\ accum >= 0
          /\ pc \in {"update"} \cup AfterUpdate
                => nsteps + accum \div TicksPerDt = due
          /\ pc = "sensors" => (nsteps - 1) + accum \div TicksPerDt = due
          /\ pc \in {"loop", "done"} => nsteps = due
          /\ Live.t = Dt * (nsteps - resetMark - (IF pc = "sensors" THEN 1 ELSE 0))
          /\ nput <= nsteps)
    /\ [][((pc = "drain" /\ pc' = "loop") => (nsteps' = nsteps /\ accum' < TicksPerDt))
           /\ ((pc = "sensors" /\ pc' # pc)
                  => (pc' = "put" /\ accum' = accum - TicksPerDt))
           /\ ((pc # "put" /\ pc' = "put") => pc = "sensors")
           /\ ((nsteps' # nsteps) => (pc = "update" /\ nsteps' = nsteps + 1))]_vars

\* the loop fell behind: after a Reset, an iteration has run one update and
\* owes another
C14_Witness ==
    /\ pc = "put"
    /\ accum >= TicksPerDt
    /\ due = nsteps + 1
    /\ resetMark >= 1
    /\ Live.t = Dt * (nsteps - resetMark)
    /\ Live.t >= 1

\* C15: the auto-shift policy of update(), whatever engine_on is: with the
\* rpm computed in this update over the up-shift threshold and the gear below
\* the top gear, the gear goes up by one; else with that rpm under the
\* down-shift threshold and the gear above 1, it goes down by one; else it
\* stays.
C15_ShiftPolicyAnyEngine ==
    (lastOp = "update" /\ pre.gear \in 1..MaxGear)
       => Live.gear =
            IF Live.rpm > ShiftUpRpm /\ pre.gear < MaxGear THEN pre.gear + 1
            ELSE IF Live.rpm < ShiftDownRpm /\ pre.gear > 1 THEN pre.gear - 1
            ELSE pre.gear

\* C16: update() changes the gear by at most one, also when the rpm would
\* warrant several shifts.
C16_OneShiftPerUpdate ==
    lastOp = "update" => Live.gear - pre.gear \in {-1, 0, 1}

\* update() shifted up by one although the rpm in the new gear is still over
\* the up-shift threshold and a higher gear exists
C16_Witness ==
    /\ lastOp = "update"
    /\ Live.gear = pre.gear + 1
    /\ Live.gear < MaxGear
    /\ RpmOf(MsOfKph(Live.speed_kph), Live.gear, Live.engine_on) > ShiftUpRpm

\* C17: after update(), rpm is within [idle, redline] with the engine on and
\* within [0, redline] with it off; below the near-stop speed it is exactly
\* idle (engine on) or 0 (engine off) whatever the gear; it is 0 only with
\* the engine off below the near-stop speed; and the speed is not negative.
C17_RpmBounds ==
    lastOp = "update"
       => /\ Live.rpm >= (IF Live.engine_on THEN IdleRpm ELSE 0)
          /\ Live.rpm <= RedlineRpm
          /\ MsOfKph(Live.speed_kph) < NearStopMm
                => Live.rpm = (IF Live.engine_on THEN IdleRpm ELSE 0)
          /\ Live.rpm = 0
                => (~Live.engine_on /\ MsOfKph(Live.speed_kph) < NearStopMm)
          /\ Live.speed_kph >= 0

\* update() ran with the engine off and the car rolling in a high gear: the
\* rpm is under idle and not 0
C17_Witness ==
    /\ lastOp = "update"
    /\ ~Live.engine_on
    /\ pre.gear > 1
    /\ MsOfKph(Live.speed_kph) >= NearStopMm
    /\ Live.rpm \in 1..(IdleRpm - 1)

\* C18: an update() never raises the fuel level and never leaves it negative,
\* whatever commands were applied before it.
C18_FuelMonotone ==
    lastOp = "update"
       => /\ Live.fuel_level_pct <= pre.fuel_level_pct
          /\ Live.fuel_level_pct >= 0

\* C19: when the sensor strategy is absent, or one of its three calls fails,
\* update() completes, t advances by dt, and coolant, fuel and battery are
\* what the fallback dynamics compute from the values held before the update.
C19_FailureGivesFallback ==
    (lastOp = "update" /\ sensed \in {"fallback", "failed"})
       => LET dt   == Live.t - pre.t
              want == fallback_sensors(update_drive(pre, dt), dt)
          IN  /\ dt \in DtInputs
              /\ Live.coolant_temp_c = want.coolant_temp_c
              /\ Live.fuel_level_pct = want.fuel_level_pct
              /\ Live.battery_v = want.battery_v

\* C20: the VehicleSimulator stays in range under any sequence of its four
\* methods: the pedals are never both pressed, rpm is in [700, 6000], speed
\* in [0, 220], temp in [20, 120], fuel in [0, 100] and no step raises it,
\* and once update() has run the voltage is 12.5 with rpm < 1000 and 13.8
\* otherwise.
C20_ApiSimulatorRanges ==
    /\ [](/\ ~(vsim.gas_pressed /\ vsim.brake_pressed)
          /\ vsim.rpm \in 700..6000
          /\ vsim.speed \in 0..22000
          /\ vsim.temp \in (20 * 16000)..(120 * 16000)
          /\ vsim.fuel \in 0..(100 * 1600000)
          /\ nvs > 0 => vsim.voltage = (IF vsim.rpm < 1000 THEN 12500 ELSE 13800))
    /\ [][vsim'.fuel <= vsim.fuel]_vars

\* held gas for a long step: rpm, speed and temp are at their upper limits
\* and the tank is empty; then the brake was pressed
C20_Witness ==
    /\ nvs >= 1
    /\ vsim.brake_pressed
    /\ vsim.rpm = 6000
    /\ vsim.speed = 22000
    /\ vsim.temp = 120 * 16000
    /\ vsim.fuel = 0
    /\ vsim.voltage = 13800

====
